---- MODULE Spec2Model ----
(***************************************************************************)
(* A model of guardian_life_scraper_github.py: one run of main(), i.e. the *)
(* paginated listing loop, deduplication, the detail loop, the left merge, *)
(* export and the run-history bookkeeping.  The remote server, the console *)
(* and the history file are the environment; their behaviour is drawn from *)
(* small sets.                                                             *)
(***************************************************************************)
EXTENDS Integers, Sequences, FiniteSets, TLC

\* ------------------------------------------------------------------ bounds
\* Number of postings the server holds in one run.
MaxPostings == 3
\* Number of offsets range(0, MAX_JOBS, 20) yields.  The source has
\* MAX_JOBS = 1000, i.e. 50 offsets; the model keeps the loop and scales the
\* number of offsets.
MaxPages == 3
\* Number of entries the history file may hold before the run.
MaxPrior == 1

\* ------------------------------------------------------- program constants
\* Page size, and the step of range(0, MAX_JOBS, 20).
limit == 20
MAX_JOBS == limit * MaxPages
MAX_RETRIES == 3
\* Seconds slept between requests.
REQUEST_DELAY == 1

None == "None"

\* Exceptions the run can raise, by what raises them.
GetError == "AttributeError: 'list' object has no attribute 'get'"
ItemError == "TypeError: 'str' object does not support item assignment"
AppendError == "AttributeError: 'dict' object has no attribute 'append'"
WriteError == "OSError"
PrintError == "UnicodeEncodeError"

\* Warnings scrape_jobs logs before it returns None.
WarnNoPostings == "No job postings collected. Check if cookies are still valid."
WarnNoDetails == "No job details collected."
NaN == "NaN"

\* ------------------------------------------------------- environment values
Paths == {"/job/a", "/job/b"}
Fingerprints == {"R1", "R2"}
\* Postings the listing endpoint may return.  bulletFields = NaN stands for a
\* posting that carries no bulletFields key (json_normalize fills NaN when
\* other rows have the key).  The set holds two postings with one fingerprint
\* and different paths, two with one path and different fingerprints, and one
\* without a fingerprint.
Postings ==
    {[externalPath |-> "/job/a", bulletFields |-> "R1"],
     [externalPath |-> "/job/b", bulletFields |-> "R1"],
     [externalPath |-> "/job/a", bulletFields |-> "R2"],
     [externalPath |-> "/job/b", bulletFields |-> NaN]}

\* Raw columns a detail mapping may flatten to.
DetailColumns == {"jobPostingInfo.title"}
\* Bodies of a detail response that parse to a mapping, given by their
\* flattened columns; {} is the empty mapping.
DetailBodies == SUBSET DetailColumns

\* column_mapping, in the order the dict literal lists its keys.
column_mapping ==
    << <<"jobPostingInfo.title", "Job Title">>,
       <<"jobPostingInfo.jobDescription", "Job Description">>,
       <<"jobPostingInfo.location", "Location">>,
       <<"jobPostingInfo.additionalLocations", "Additional Locations">>,
       <<"jobPostingInfo.startDate", "Posted Date">>,
       <<"jobPostingInfo.jobReqId", "Job ID">>,
       <<"jobPostingInfo.remoteType", "Remote Type">>,
       <<"jobPostingInfo.externalUrl", "Application URL">> >>

\* Raw columns the merged table may carry, listing columns first: the join
\* keys, the fingerprint, the keys of column_mapping, and columns the mapping
\* does not know (one of each table, and one named like a label).
RawColumns ==
    <<"externalPath", "bulletFields", "title">>
    \o [i \in 1..Len(column_mapping) |-> column_mapping[i][1]]
    \o <<"jobPostingInfo.country", "Job Title", "_externalPath">>

\* One attempt of session.post/get + raise_for_status: "ok", or "err" for a
\* requests.exceptions.RequestException (network error, timeout, non-2xx).
AttemptOutcomes == {"ok", "err"}

RECURSIVE SeqsUpTo(_, _)
SeqsUpTo(S, n) ==
    IF n = 0 THEN {<<>>}
    ELSE LET shorter == SeqsUpTo(S, n - 1)
         IN  shorter \cup {Append(s, x) : s \in {t \in shorter : Len(t) = n - 1}, x \in S}

\* ------------------------------------------------------------------- state
VARIABLES
    pc,            \* position of the run inside main()/scrape_jobs()
    offset,        \* loop variable of the listing loop
    all_postings,  \* scrape_jobs: accumulated summaries
    pageLog,       \* history: the postings each fetch_job_list call returned
    listings_df,   \* scrape_jobs: summaries after drop_duplicates
    di,            \* index of the next row of listings_df['externalPath']
    all_details,   \* scrape_jobs: tagged detail mappings
    detailLog,     \* history: <<path, outcome>> of each fetch_job_details call
    final_df,      \* rows of the merged table
    lastFetch,     \* the last fetch_job_list/fetch_job_details call: what
                   \* fetch_with_retry did, the value returned, and the
                   \* first attempt the server answered
    warnings,      \* warnings scrape_jobs logged about an empty phase
    history_file,  \* logs/run_history.json, once save_run_history has read it
    prior,         \* the history file as the run's first save_run_history found it
    exported,      \* export files written
    reported,      \* statuses handed to save_run_history, in call order
    raised,        \* the exception main() caught, or None
    exitCode,      \* -1 while running, then the process exit code
    timeline,      \* history: the requests scrape_jobs issued and the
                   \* time.sleep(REQUEST_DELAY) calls it made, in order
    merged_columns,\* columns of the merged table (line 255)
    final_columns  \* columns of the table scrape_jobs returns

vars == <<pc, offset, all_postings, pageLog, listings_df, di, all_details,
          detailLog, final_df, lastFetch, warnings, history_file, prior,
          exported, reported, raised, exitCode, timeline, merged_columns,
          final_columns>>

\* ------------------------------------------------------- fetch_with_retry
\* The for loop of fetch_with_retry from attempt number `attempt` on; outs[n]
\* is what the server does to attempt n.  sleeps lists the backoff sleeps and
\* warned counts the warnings logged so far.
RECURSIVE RetryLoop(_, _, _, _, _)
RetryLoop(outs, retries, attempt, sleeps, warned) ==
    IF attempt > retries
    THEN [response |-> None, attempts |-> attempt - 1,
          sleeps |-> sleeps, warned |-> warned]
    ELSE IF outs[attempt] = "ok"
    THEN [response |-> "Response", attempts |-> attempt,
          sleeps |-> sleeps, warned |-> warned]
    ELSE RetryLoop(outs, retries, attempt + 1,
                   IF attempt < retries THEN Append(sleeps, 2 * attempt) ELSE sleeps,
                   warned + 1)

\* A plausible slip: the response is kept instead of returned, so the loop
\* goes on to the last attempt and the last response is what comes back.
RECURSIVE NoReturnLoop(_, _, _, _, _, _)
NoReturnLoop(outs, retries, attempt, sleeps, warned, response) ==
    IF attempt > retries
    THEN [response |-> response, attempts |-> attempt - 1,
          sleeps |-> sleeps, warned |-> warned]
    ELSE IF outs[attempt] = "ok"
    THEN NoReturnLoop(outs, retries, attempt + 1, sleeps, warned, "Response")
    ELSE NoReturnLoop(outs, retries, attempt + 1,
                      IF attempt < retries THEN Append(sleeps, 2 * attempt) ELSE sleeps,
                      warned + 1, response)

FetchWithRetryNoReturn(outs, retries) == NoReturnLoop(outs, retries, 1, <<>>, 0, None)

\* A plausible slip: the backoff sleep is not guarded by `attempt < retries`,
\* so the last failed attempt is followed by a sleep too.
RECURSIVE AlwaysSleepLoop(_, _, _, _, _)
AlwaysSleepLoop(outs, retries, attempt, sleeps, warned) ==
    IF attempt > retries
    THEN [response |-> None, attempts |-> attempt - 1,
          sleeps |-> sleeps, warned |-> warned]
    ELSE IF outs[attempt] = "ok"
    THEN [response |-> "Response", attempts |-> attempt,
          sleeps |-> sleeps, warned |-> warned]
    ELSE AlwaysSleepLoop(outs, retries, attempt + 1,
                         Append(sleeps, 2 * attempt), warned + 1)

FetchWithRetryAlwaysSleeps(outs, retries) == AlwaysSleepLoop(outs, retries, 1, <<>>, 0)

\* fetch_with_retry: the response or None, the number of attempts made, the
\* backoff sleeps taken and the number of warnings logged.
FetchWithRetry(outs, retries) == RetryLoop(outs, retries, 1, <<>>, 0)

\* A JSON value as the run looks at it: kind "dict" for a mapping, with its
\* jobPostings (listing) or its flattened columns (detail); kind "other" for
\* JSON that is no mapping (a list, a string); kind "notjson" for a body
\* response.json() cannot parse.
Json(kind, jobPostings, cols) == [kind |-> kind, jobPostings |-> jobPostings, cols |-> cols]

\* Bodies of a listing response holding at most `room` postings.
ListBodies(room) ==
    {Json("notjson", <<>>, {}), Json("other", <<>>, {})}
    \cup {Json("dict", p, {}) : p \in SeqsUpTo(Postings, room)}

\* {'jobPostings': []}
EmptyListing == Json("dict", <<>>, {})

\* fetch_job_list: what fetch_with_retry did, and the value returned.
FetchJobList(outs, body) ==
    LET r == FetchWithRetry(outs, MAX_RETRIES)
    IN  [fetch |-> r,
         result |-> IF r.response # None /\ body.kind # "notjson"
                    THEN body
                    ELSE EmptyListing]

\* Bodies of a detail response.
DetailResponses ==
    {Json("notjson", <<>>, {}), Json("other", <<>>, {})}
    \cup {Json("dict", <<>>, c) : c \in DetailBodies}

\* {}
EmptyDetail == Json("dict", <<>>, {})

\* fetch_job_details: what fetch_with_retry did, and the value returned.
FetchJobDetails(outs, body) ==
    LET r == FetchWithRetry(outs, MAX_RETRIES)
    IN  [fetch |-> r,
         result |-> IF r.response # None /\ body.kind # "notjson"
                    THEN body
                    ELSE EmptyDetail]

\* Number of the first attempt the server answers with a 2xx response, 0 when
\* it answers none of the first n.
RECURSIVE FirstOk(_, _)
FirstOk(outs, n) ==
    IF n = 0 THEN 0
    ELSE LET before == FirstOk(outs, n - 1)
         IN  IF before # 0 THEN before ELSE IF outs[n] = "ok" THEN n ELSE 0

\* A plausible slip: `if detail is not None`, true of every value returned.
TruthyNotNone(detail) == TRUE

\* `if detail`: an empty mapping is falsy; the non-mapping values modelled are
\* the truthy ones.
Truthy(detail) == detail.kind = "other" \/ detail.cols # {}

\* ------------------------------------------------------- requests, delays
\* An entry of timeline: a fetch_job_list(session, offset) call, a
\* fetch_job_details(session, path) call, or a time.sleep(seconds) call of
\* scrape_jobs.
Event(ev, o, path, seconds) == [ev |-> ev, offset |-> o, path |-> path, seconds |-> seconds]

ListRequest(o) == Event("list", o, None, 0)

DetailRequest(path) == Event("detail", -1, path, 0)

Sleep(seconds) == Event("sleep", -1, None, seconds)

\* --------------------------------------------------------- listing loop
\* A plausible slip: `continue` where `break` is meant, so the loop never
\* stops at an empty page.
EmptyPageNever(postings) == FALSE

\* `if not postings` of the listing loop (the loop breaks).
EmptyPage(postings) == postings = <<>>

\* A plausible slip: a loop that does not advance its offset.
SameOffset(o) == o

\* The offset range(0, MAX_JOBS, 20) yields after o.
NextOffset(o) == o + limit

\* A plausible slip: the sleep sits inside `if detail:`.
DelayIfKept(detail) == IF detail.kind = "other" \/ detail.cols # {}
                       THEN <<Sleep(REQUEST_DELAY)>> ELSE <<>>

\* time.sleep(REQUEST_DELAY) at the end of an iteration of the detail loop,
\* whatever fetch_job_details returned.
DelayAfterDetail(detail) == <<Sleep(REQUEST_DELAY)>>

\* A plausible slip: the page is put in front.
ExtendFront(all, postings) == postings \o all

\* all_postings.extend(postings)
Extend(all, postings) == all \o postings

\* ---------------------------------------------------------- deduplication
\* 'bulletFields' in listings_df.columns
HasFingerprintColumn(rows) == \E i \in 1..Len(rows) : rows[i].bulletFields # NaN

RECURSIVE KeepFirst(_, _)
KeepFirst(rows, i) ==
    IF i > Len(rows) THEN <<>>
    ELSE IF \E j \in 1..(i - 1) : rows[j].bulletFields = rows[i].bulletFields
         THEN KeepFirst(rows, i + 1)
         ELSE <<rows[i]>> \o KeepFirst(rows, i + 1)

\* A plausible slip: only a duplicate of the row right before is dropped.
RECURSIVE KeepNonAdjacent(_, _)
KeepNonAdjacent(rows, i) ==
    IF i > Len(rows) THEN <<>>
    ELSE IF i > 1 /\ rows[i - 1].bulletFields = rows[i].bulletFields
         THEN KeepNonAdjacent(rows, i + 1)
         ELSE <<rows[i]>> \o KeepNonAdjacent(rows, i + 1)

DropDuplicatesAdjacent(rows) ==
    IF HasFingerprintColumn(rows) THEN KeepNonAdjacent(rows, 1) ELSE rows

\* A plausible slip: keep='last'.
RECURSIVE KeepLast(_, _)
KeepLast(rows, i) ==
    IF i > Len(rows) THEN <<>>
    ELSE IF \E j \in (i + 1)..Len(rows) : rows[j].bulletFields = rows[i].bulletFields
         THEN KeepLast(rows, i + 1)
         ELSE <<rows[i]>> \o KeepLast(rows, i + 1)

DropDuplicatesKeepLast(rows) ==
    IF HasFingerprintColumn(rows) THEN KeepLast(rows, 1) ELSE rows

\* listings_df.drop_duplicates(subset=['bulletFields']), guarded by the column
\* test; the first row of each fingerprint is kept (NaN counts as a value).
DropDuplicates(rows) ==
    IF HasFingerprintColumn(rows) THEN KeepFirst(rows, 1) ELSE rows

\* ------------------------------------------------------------------ merge
\* Rows of details_df whose _externalPath equals path, in details_df order.
Matches(details, path) == SelectSeq(details, LAMBDA d : d._externalPath = path)

\* A row of the merged table: the summary's columns, and the detail's columns
\* (all NaN when matched is FALSE).
JoinRow(l, matched, cols) ==
    [externalPath |-> l.externalPath, bulletFields |-> l.bulletFields,
     matched |-> matched, cols |-> cols]

\* Rows one summary contributes to a left join.
LeftRows(l, details) ==
    LET m == Matches(details, l.externalPath)
    IN  IF m = <<>> THEN <<JoinRow(l, FALSE, {})>>
        ELSE [k \in 1..Len(m) |-> JoinRow(l, TRUE, m[k].cols)]

\* how='inner': a summary without a detail row is dropped.
InnerRows(l, details) ==
    LET m == Matches(details, l.externalPath)
    IN  [k \in 1..Len(m) |-> JoinRow(l, TRUE, m[k].cols)]

RECURSIVE InnerFrom(_, _, _)
InnerFrom(listings, details, i) ==
    IF i > Len(listings) THEN <<>>
    ELSE InnerRows(listings[i], details) \o InnerFrom(listings, details, i + 1)

MergeInner(listings, details) == InnerFrom(listings, details, 1)

\* The rows of the left join from row i of listings on, in listings order.
RECURSIVE LeftFrom(_, _, _)
LeftFrom(listings, details, i) ==
    IF i > Len(listings) THEN <<>>
    ELSE LeftRows(listings[i], details) \o LeftFrom(listings, details, i + 1)

\* pd.merge(listings_df, details_df, left_on='externalPath',
\*          right_on='_externalPath', how='left')
Merge(listings, details) == LeftFrom(listings, details, 1)

\* ------------------------------------------------------- column selection
\* The members of cols, in the order of RawColumns.
InOrder(cols) == SelectSeq(RawColumns, LAMBDA c : c \in cols)

\* Columns of pd.merge(listings_df, details_df, ...): those of listings_df,
\* then those of details_df (every key some detail mapping has, and the
\* _externalPath tag).
MergedColumns(listings, details) ==
    InOrder({"externalPath"}
            \cup (IF HasFingerprintColumn(listings) THEN {"bulletFields"} ELSE {})
            \cup UNION {details[i].cols : i \in 1..Len(details)}
            \cup {"_externalPath"})

\* Tables the merge may produce, by their columns.
MergedTables ==
    {InOrder(c \cup {"externalPath", "_externalPath"}) :
        c \in SUBSET {RawColumns[i] : i \in 1..Len(RawColumns)}}

\* [col for col in column_mapping if col in final_df.columns]
Available(columns) ==
    LET keys == [i \in 1..Len(column_mapping) |-> column_mapping[i][1]]
    IN  SelectSeq(keys, LAMBDA k : \E i \in 1..Len(columns) : columns[i] = k)

\* DataFrame.rename(columns=column_mapping): a column that is a key gets its
\* label, any other column keeps its name.
Rename(columns) ==
    [i \in 1..Len(columns) |->
        IF \E k \in 1..Len(column_mapping) : column_mapping[k][1] = columns[i]
        THEN column_mapping[CHOOSE k \in 1..Len(column_mapping) :
                                column_mapping[k][1] = columns[i]][2]
        ELSE columns[i]]

\* A plausible slip: the table is renamed without being cut down to the
\* available columns.
FinalColumnsRenameOnly(columns) == <<"Scraped Date">> \o Rename(columns)

\* Lines 275-283: final_df[available].rename(columns=column_mapping), then
\* insert(0, 'Scraped Date', ...).
FinalColumns(columns) == <<"Scraped Date">> \o Rename(Available(columns))

\* ------------------------------------------------------- save_run_history
Entry(status, records_count, error) ==
    [status |-> status, records_scraped |-> records_count, error |-> error]

\* The history file: missing, not parseable as JSON, JSON that is no list
\* (history.append then raises AttributeError), or a list of entries.
HistoryFiles ==
    {[kind |-> k, entries |-> <<>>] : k \in {"missing", "invalid", "notlist"}}
    \cup {[kind |-> "list",
           entries |-> [i \in 1..n |-> Entry("success", i, None)]] : n \in 1..MaxPrior}

\* The file before the run's first save_run_history call has looked at it.
Unread == [kind |-> "unread", entries |-> <<>>]

\* save_run_history: whether it raises, and the file it leaves.
SaveRunHistory(file, entry) ==
    IF file.kind = "notlist"
    THEN [raises |-> TRUE, file |-> file]
    ELSE [raises |-> FALSE,
          file |-> [kind |-> "list", entries |-> Append(file.entries, entry)]]

\* ------------------------------------------------------------ export_data
Formats == <<"xlsx", "csv", "json">>

\* Files written when the write of format number failAt raises (0: none does).
Written(failAt) ==
    {Formats[k] : k \in {j \in 1..Len(Formats) : failAt = 0 \/ j < failAt}}

\* ------------------------------------------------------------------- Init
Init ==
    /\ pc = "listing"
    /\ offset = 0
    /\ all_postings = <<>>
    /\ pageLog = <<>>
    /\ listings_df = <<>>
    /\ di = 1
    /\ all_details = <<>>
    /\ detailLog = <<>>
    /\ final_df = <<>>
    /\ lastFetch = [fetch |-> [response |-> None, attempts |-> 0,
                               sleeps |-> <<>>, warned |-> 0],
                    result |-> EmptyListing, firstOk |-> 0]
    /\ warnings = {}
    /\ history_file = Unread
    /\ prior = Unread
    /\ exported = {}
    /\ reported = <<>>
    /\ raised = None
    /\ exitCode = -1
    /\ timeline = <<>>
    /\ merged_columns = <<>>
    /\ final_columns = <<>>

\* ---------------------------------------------------- scrape_jobs, phase 1
\* One iteration of the listing loop (lines 204-214).
FetchPage ==
    /\ pc = "listing"
    /\ offset < MAX_JOBS
    /\ \E outs \in [1..MAX_RETRIES -> AttemptOutcomes],
          body \in ListBodies(MaxPostings - Len(all_postings)) :
         LET r == FetchJobList(outs, body)
             postings == r.result.jobPostings
         IN  /\ lastFetch' = [fetch |-> r.fetch, result |-> r.result,
                              firstOk |-> FirstOk(outs, MAX_RETRIES)]
             /\ IF r.result.kind # "dict"
                THEN \* result.get raises AttributeError
                     /\ pc' = "except"
                     /\ raised' = GetError
                     /\ timeline' = Append(timeline, ListRequest(offset))
                     /\ UNCHANGED <<offset, all_postings, pageLog>>
                ELSE IF EmptyPage(postings)
                THEN \* break
                     /\ pc' = "after_listing"
                     /\ pageLog' = Append(pageLog, postings)
                     /\ timeline' = Append(timeline, ListRequest(offset))
                     /\ UNCHANGED <<offset, all_postings, raised>>
                ELSE /\ all_postings' = Extend(all_postings, postings)
                     /\ pageLog' = Append(pageLog, postings)
                     /\ timeline' = timeline \o <<ListRequest(offset), Sleep(REQUEST_DELAY)>>
                     /\ offset' = NextOffset(offset)
                     /\ pc' = IF NextOffset(offset) < MAX_JOBS
                              THEN "listing" ELSE "after_listing"
                     /\ UNCHANGED raised
    /\ UNCHANGED <<listings_df, di, all_details, detailLog, final_df, warnings,
                   history_file, prior, exported, reported, exitCode,
                   merged_columns, final_columns>>

\* A plausible slip: the guard is missing.
NoPostingsNever(postings) == FALSE

\* `if not all_postings`
NoPostings(postings) == postings = <<>>

\* A plausible slip: the second phase is entered from inside the listing
\* loop, as soon as some postings are there.
DeduplicateEarly ==
    /\ pc \in {"listing", "after_listing"}
    /\ pc = "listing" => all_postings # <<>>
    /\ IF NoPostings(all_postings)
       THEN /\ warnings' = warnings \cup {WarnNoPostings}
            /\ pc' = "returned_none"
            /\ UNCHANGED listings_df
       ELSE /\ listings_df' = DropDuplicates(all_postings)
            /\ pc' = "details"
            /\ UNCHANGED warnings
    /\ UNCHANGED <<offset, all_postings, pageLog, di, all_details, detailLog,
                   final_df, lastFetch, history_file, prior, exported,
                   reported, raised, exitCode, timeline, merged_columns,
                   final_columns>>

\* Lines 216-226: the empty check and the deduplication.
Deduplicate ==
    /\ pc = "after_listing"
    /\ IF NoPostings(all_postings)
       THEN /\ warnings' = warnings \cup {WarnNoPostings}
            /\ pc' = "returned_none"
            /\ UNCHANGED listings_df
       ELSE /\ listings_df' = DropDuplicates(all_postings)
            /\ pc' = "details"
            /\ UNCHANGED warnings
    /\ UNCHANGED <<offset, all_postings, pageLog, di, all_details, detailLog,
                   final_df, lastFetch, history_file, prior, exported,
                   reported, raised, exitCode, timeline, merged_columns,
                   final_columns>>

\* ---------------------------------------------------- scrape_jobs, phase 2
\* What the server did to one fetch_job_details call, read off the attempts
\* and the body: "skipped" when retries were exhausted or the body is no JSON
\* or an empty mapping, "badshape" when the body is JSON but no mapping, else
\* "ok".
DetailOutcome(outs, body) ==
    IF (\A n \in 1..MAX_RETRIES : outs[n] = "err") \/ body.kind = "notjson"
       \/ (body.kind = "dict" /\ body.cols = {})
    THEN "skipped"
    ELSE IF body.kind = "other" THEN "badshape"
    ELSE "ok"

\* One iteration of the detail loop (lines 232-237).
FetchDetail ==
    /\ pc = "details"
    /\ di <= Len(listings_df)
    /\ \E outs \in [1..MAX_RETRIES -> AttemptOutcomes], body \in DetailResponses :
         LET r == FetchJobDetails(outs, body)
             path == listings_df[di].externalPath
         IN  /\ lastFetch' = [fetch |-> r.fetch, result |-> r.result,
                              firstOk |-> FirstOk(outs, MAX_RETRIES)]
             /\ detailLog' = Append(detailLog, <<path, DetailOutcome(outs, body)>>)
             /\ IF ~Truthy(r.result)
                THEN /\ di' = di + 1
                     /\ timeline' = Append(timeline, DetailRequest(path))
                                        \o DelayAfterDetail(r.result)
                     /\ UNCHANGED <<all_details, pc, raised>>
                ELSE IF r.result.kind # "dict"
                THEN \* detail['_externalPath'] = path raises TypeError
                     /\ pc' = "except"
                     /\ raised' = ItemError
                     /\ timeline' = Append(timeline, DetailRequest(path))
                     /\ UNCHANGED <<all_details, di>>
                ELSE /\ all_details' = Append(all_details,
                            [_externalPath |-> path, cols |-> r.result.cols])
                     /\ di' = di + 1
                     /\ timeline' = Append(timeline, DetailRequest(path))
                                        \o DelayAfterDetail(r.result)
                     /\ UNCHANGED <<pc, raised>>
    /\ UNCHANGED <<offset, all_postings, pageLog, listings_df, final_df, warnings,
                   history_file, prior, exported, reported, exitCode,
                   merged_columns, final_columns>>

\* ---------------------------------------------------- scrape_jobs, phase 3
\* A plausible slip: the guard is missing.
NoDetailsNever(details) == FALSE

\* `if not all_details`
NoDetails(details) == details = <<>>

\* Lines 239-286: the empty check and the merge.
BuildDataset ==
    /\ pc = "details"
    /\ di > Len(listings_df)
    /\ IF NoDetails(all_details)
       THEN /\ warnings' = warnings \cup {WarnNoDetails}
            /\ pc' = "returned_none"
            /\ UNCHANGED <<final_df, merged_columns, final_columns>>
       ELSE /\ final_df' = Merge(listings_df, all_details)
            /\ merged_columns' = MergedColumns(listings_df, all_details)
            /\ final_columns' = FinalColumns(merged_columns')
            /\ pc' = "returned_df"
            /\ UNCHANGED warnings
    /\ UNCHANGED <<offset, all_postings, pageLog, listings_df, di, all_details,
                   detailLog, lastFetch, history_file, prior, exported,
                   reported, raised, exitCode, timeline>>

\* ------------------------------------------------------------------- main
\* The history file a save_run_history call finds: the run's first call reads
\* whatever the file holds by then, later calls what the run left there.
FilesFound == IF reported = <<>> THEN HistoryFiles ELSE {history_file}

\* Lines 399-403: df is None.  print() of the status line may raise (a
\* console that cannot encode it); sys.exit(1) is no Exception and is not
\* caught by the handler.
NoData ==
    /\ pc = "returned_none"
    /\ \E file \in FilesFound, printed \in BOOLEAN :
         LET s == SaveRunHistory(file, Entry("no_data", 0, None))
         IN  /\ reported' = Append(reported, "no_data")
             /\ prior' = IF reported = <<>> THEN file ELSE prior
             /\ history_file' = s.file
             /\ IF s.raises
                THEN pc' = "except" /\ raised' = AppendError /\ UNCHANGED exitCode
                ELSE IF ~printed
                THEN pc' = "except" /\ raised' = PrintError /\ UNCHANGED exitCode
                ELSE pc' = "exit" /\ exitCode' = 1 /\ UNCHANGED raised
    /\ UNCHANGED <<offset, all_postings, pageLog, listings_df, di, all_details,
                   detailLog, final_df, lastFetch, warnings, exported, timeline,
                   merged_columns, final_columns>>

\* A plausible slip: export_data(df) is called before the `df is None or
\* df.empty` test.
ExportDataUnchecked ==
    /\ pc \in {"returned_df", "returned_none"}
    /\ \E failAt \in 0..Len(Formats) :
         /\ exported' = Written(failAt)
         /\ IF failAt = 0
            THEN pc' = "exported" /\ UNCHANGED raised
            ELSE pc' = "except" /\ raised' = WriteError
    /\ UNCHANGED <<offset, all_postings, pageLog, listings_df, di, all_details,
                   detailLog, final_df, lastFetch, warnings, history_file, prior,
                   reported, exitCode, timeline, merged_columns, final_columns>>

\* Line 405: export_data(df), reached when df is a non-empty table.
ExportData ==
    /\ pc = "returned_df"
    /\ final_df # <<>>
    /\ \E failAt \in 0..Len(Formats) :
         /\ exported' = Written(failAt)
         /\ IF failAt = 0
            THEN pc' = "exported" /\ UNCHANGED raised
            ELSE pc' = "except" /\ raised' = WriteError
    /\ UNCHANGED <<offset, all_postings, pageLog, listings_df, di, all_details,
                   detailLog, final_df, lastFetch, warnings, history_file, prior,
                   reported, exitCode, timeline, merged_columns, final_columns>>

\* Line 406: save_run_history('success', len(df)).
SaveSuccess ==
    /\ pc = "exported"
    /\ \E file \in FilesFound :
         LET s == SaveRunHistory(file, Entry("success", Len(final_df), None))
         IN  /\ reported' = Append(reported, "success")
             /\ prior' = IF reported = <<>> THEN file ELSE prior
             /\ history_file' = s.file
             /\ IF s.raises
                THEN pc' = "except" /\ raised' = AppendError
                ELSE pc' = "saved" /\ UNCHANGED raised
    /\ UNCHANGED <<offset, all_postings, pageLog, listings_df, di, all_details,
                   detailLog, final_df, lastFetch, warnings, exported, exitCode,
                   timeline, merged_columns, final_columns>>

\* Lines 408-423: the summary is logged and printed, and main returns df.
Report ==
    /\ pc = "saved"
    /\ \E printed \in BOOLEAN :
         IF printed
         THEN pc' = "exit" /\ exitCode' = 0 /\ UNCHANGED raised
         ELSE pc' = "except" /\ raised' = PrintError /\ UNCHANGED exitCode
    /\ UNCHANGED <<offset, all_postings, pageLog, listings_df, di, all_details,
                   detailLog, final_df, lastFetch, warnings, history_file, prior,
                   exported, reported, timeline, merged_columns, final_columns>>

\* Lines 425-429: except Exception.  An exception raised inside the handler
\* (by save_run_history or by print) is uncaught; the interpreter then exits
\* with code 1, as sys.exit(1) does.
HandleError ==
    /\ pc = "except"
    /\ \E file \in FilesFound :
         LET s == SaveRunHistory(file, Entry("error", 0, raised))
         IN  /\ reported' = Append(reported, "error")
             /\ prior' = IF reported = <<>> THEN file ELSE prior
             /\ history_file' = s.file
    /\ pc' = "exit"
    /\ exitCode' = 1
    /\ UNCHANGED <<offset, all_postings, pageLog, listings_df, di, all_details,
                   detailLog, final_df, lastFetch, warnings, exported, raised,
                   timeline, merged_columns, final_columns>>

Next ==
    \/ FetchPage
    \/ Deduplicate
    \/ FetchDetail
    \/ BuildDataset
    \/ NoData
    \/ ExportData
    \/ SaveSuccess
    \/ Report
    \/ HandleError

Spec == Init /\ [][Next]_vars

\* ------------------------------------------- column selection on its own
\* Lines 263-283 applied to every table the merge may produce: the run stands
\* right after pd.merge, with nothing else of the run looked at.
InitColumns ==
    /\ pc = "merged"
    /\ merged_columns \in MergedTables
    /\ final_columns = <<>>
    /\ offset = 0
    /\ all_postings = <<>>
    /\ pageLog = <<>>
    /\ listings_df = <<>>
    /\ di = 1
    /\ all_details = <<>>
    /\ detailLog = <<>>
    /\ final_df = <<>>
    /\ lastFetch = [fetch |-> [response |-> None, attempts |-> 0,
                               sleeps |-> <<>>, warned |-> 0],
                    result |-> EmptyListing, firstOk |-> 0]
    /\ warnings = {}
    /\ history_file = Unread
    /\ prior = Unread
    /\ exported = {}
    /\ reported = <<>>
    /\ raised = None
    /\ exitCode = -1
    /\ timeline = <<>>

SelectColumns ==
    /\ pc = "merged"
    /\ final_columns' = FinalColumns(merged_columns)
    /\ pc' = "selected"
    /\ UNCHANGED <<offset, all_postings, pageLog, listings_df, di, all_details,
                   detailLog, final_df, lastFetch, warnings, history_file, prior,
                   exported, reported, raised, exitCode, timeline,
                   merged_columns>>

NextColumns == SelectColumns

SpecColumns == InitColumns /\ [][NextColumns]_vars

\* ============================================================== properties
RECURSIVE Concat(_)
Concat(ss) == IF ss = <<>> THEN <<>> ELSE Head(ss) \o Concat(Tail(ss))

Last(s) == s[Len(s)]

\* The listing loop has ended by break or by exhausting its range.
ListingReturned == pc \notin {"listing"} /\ raised # GetError

\* The detail loop has run over every row of listings_df.
DetailsReturned == listings_df # <<>> /\ pc # "details" /\ raised # ItemError

\* Rows of listings_df whose fetch_job_details call produced a record.
OkCalls == {i \in 1..Len(detailLog) : detailLog[i][2] = "ok"}

\* Rows of final_df that carry the columns of summary l.
RowsOf(l) ==
    {n \in 1..Len(final_df) :
        /\ final_df[n].externalPath = l.externalPath
        /\ final_df[n].bulletFields = l.bulletFields}

\* C1: once the listing loop has ended, for every k such that the response
\* for page k was non-empty and the response for page k+1 was empty,
\* all_postings is the concatenation of the responses for pages 0..k, pages in
\* request order and each page in the server's order.
C1_PaginationConcatenates ==
    ListingReturned =>
        \A k \in 0..(Len(pageLog) - 2) :
            (pageLog[k + 1] # <<>> /\ pageLog[k + 2] = <<>>)
                => all_postings = Concat(SubSeq(pageLog, 1, k + 1))

\* Two different non-empty pages were followed by an empty one.
C1_Witness ==
    /\ pc = "after_listing"
    /\ Len(pageLog) = 3
    /\ pageLog[1] # <<>> /\ pageLog[2] # <<>> /\ pageLog[1] # pageLog[2]
    /\ pageLog[3] = <<>>

\* No two deduplicated summaries carry the same externalPath.
DistinctPaths ==
    \A i, j \in 1..Len(listings_df) :
        i # j => listings_df[i].externalPath # listings_df[j].externalPath

C3_JoinNeverDuplicates ==
    pc = "returned_df" =>
        /\ \A m, n \in 1..Len(final_df) :
               m # n => final_df[m].externalPath # final_df[n].externalPath
        /\ Len(final_df) <= Len(listings_df)

\* C4: the deduplicated table is a fixed point of the deduplication, is no
\* longer than the collected postings, holds no fingerprint twice when the
\* bulletFields column exists, and is the collected postings unchanged when
\* the column does not exist.
C4_DedupIdempotent ==
    listings_df # <<>> =>
        /\ DropDuplicates(listings_df) = listings_df
        /\ Len(listings_df) <= Len(all_postings)
        /\ HasFingerprintColumn(all_postings) =>
               \A i, j \in 1..Len(listings_df) :
                   i # j => listings_df[i].bulletFields # listings_df[j].bulletFields
        /\ ~HasFingerprintColumn(all_postings) => listings_df = all_postings

\* Deduplication dropped a posting whose fingerprint came back later, not
\* right after its first occurrence.
C4_Witness ==
    /\ Len(all_postings) = 3
    /\ all_postings[1].bulletFields = all_postings[3].bulletFields
    /\ all_postings[1].bulletFields # all_postings[2].bulletFields
    /\ Len(listings_df) = 2

\* The listing phase ended with nothing collected.
ZeroSummaries == ListingReturned /\ pc # "after_listing" /\ all_postings = <<>>

\* The detail phase ended with nothing collected.
ZeroDetails == DetailsReturned /\ all_details = <<>>

\* Entries the run has written to the history file.
Appended ==
    IF history_file.kind = "list"
    THEN SubSeq(history_file.entries, Len(prior.entries) + 1, Len(history_file.entries))
    ELSE <<>>

\* C5: when the listing phase collects nothing, no detail request is issued,
\* no export file is written, the first status main hands to the run history
\* is no_data, success is never handed to it, and the process exits with a
\* non-zero code.
C5_ZeroSummariesShortCircuit ==
    ZeroSummaries =>
        /\ detailLog = <<>> /\ all_details = <<>>
        /\ exported = {}
        /\ pc \in {"returned_none", "except", "exit"}
        /\ pc # "returned_none" =>
               /\ reported[1] = "no_data"
               /\ \A n \in 1..Len(reported) : reported[n] # "success"
        /\ pc = "exit" => exitCode = 1

\* A run that collected nothing has ended: no_data handed over, exit code 1.
C5_Witness ==
    /\ ZeroSummaries
    /\ pc = "exit"
    /\ reported = <<"no_data">>
    /\ Appended = <<Entry("no_data", 0, None)>>
    /\ exitCode = 1

\* C6 as stated: a run that collected summaries and no details does not end
\* with the status of a run that collected no summaries, which is no_data
\* handed to the run history and exit code 1.
C6_ZeroDetailsDistinguishable ==
    (ZeroDetails /\ pc = "exit") => ~(reported = <<"no_data">> /\ exitCode = 1)

\* C6 amended: a run that collected summaries and no details reports what a
\* run that collected no summaries reports (no_data with 0 records first, no
\* success, no export, exit code 1); the two differ only in the warning
\* scrape_jobs logged.
C6_SameStatusOtherWarning ==
    /\ ZeroDetails =>
           /\ warnings = {WarnNoDetails}
           /\ exported = {}
           /\ pc \in {"returned_none", "except", "exit"}
           /\ pc # "returned_none" =>
                  /\ reported[1] = "no_data"
                  /\ \A n \in 1..Len(reported) : reported[n] # "success"
                  /\ Appended # <<>> => Appended[1] = Entry("no_data", 0, None)
           /\ pc = "exit" => exitCode = 1
    /\ ZeroSummaries =>
           /\ warnings = {WarnNoPostings}
           /\ pc # "returned_none" =>
                  /\ reported[1] = "no_data"
                  /\ Appended # <<>> => Appended[1] = Entry("no_data", 0, None)
           /\ pc = "exit" => exitCode = 1

\* A run that collected summaries and no details has ended as a run without
\* summaries ends.
C6_Witness ==
    /\ ZeroDetails
    /\ Len(detailLog) >= 2
    /\ pc = "exit"
    /\ reported = <<"no_data">>
    /\ Appended = <<Entry("no_data", 0, None)>>
    /\ exitCode = 1

\* C7 as stated: a finished run has appended exactly one entry to the run
\* history and left the entries it found in place.
C7_OneEntryPerRun ==
    pc = "exit" =>
        /\ history_file.kind = "list"
        /\ Len(history_file.entries) = Len(prior.entries) + 1
        /\ SubSeq(history_file.entries, 1, Len(prior.entries)) = prior.entries

\* C8: a fetch_with_retry call makes at most MAX_RETRIES attempts; when the
\* server answers some attempt it returns at the first one answered; when the
\* server answers none it has made MAX_RETRIES attempts and returns None, the
\* caller returns its empty result, and no exception of the fetch functions
\* reaches main.
C8_BoundedRetryThenFailure ==
    lastFetch.fetch.attempts > 0 =>
        /\ lastFetch.fetch.attempts <= MAX_RETRIES
        /\ lastFetch.firstOk > 0 =>
               /\ lastFetch.fetch.response # None
               /\ lastFetch.fetch.attempts = lastFetch.firstOk
        /\ lastFetch.firstOk = 0 =>
               /\ lastFetch.fetch.response = None
               /\ lastFetch.fetch.attempts = MAX_RETRIES
               /\ lastFetch.result = IF detailLog = <<>> THEN EmptyListing ELSE EmptyDetail
               /\ raised \notin {GetError, ItemError}
               /\ IF detailLog = <<>>
                  THEN pageLog # <<>> /\ Last(pageLog) = <<>>
                  ELSE Len(all_details) < Len(detailLog)

\* After a detail call that produced a record, a detail call failed at all
\* three attempts; the row was skipped and the loop goes on.
C8_Witness ==
    /\ pc = "details"
    /\ lastFetch.fetch.response = None
    /\ lastFetch.fetch.attempts = MAX_RETRIES
    /\ Len(detailLog) = 2
    /\ Len(all_details) = 1
    /\ di <= Len(listings_df)
    /\ raised = None

\* Paths of the rows of listings_df, in order.
PathsOf(rows) == [i \in 1..Len(rows) |-> rows[i].externalPath]

\* C9: the detail calls made so far are one call per row of listings_df, in
\* row order; a skipped call is followed by the next row's call; the detail
\* records are those of the calls that produced one, in call order; and when
\* no call met a JSON body that is no mapping, the loop ends having called
\* every row, with no exception of the detail phase.
C9_FailedDetailSkipped ==
    /\ Len(detailLog) <= Len(listings_df)
    /\ [i \in 1..Len(detailLog) |-> detailLog[i][1]]
           = SubSeq(PathsOf(listings_df), 1, Len(detailLog))
    /\ Len(all_details) = Cardinality(OkCalls)
    /\ \A d \in 1..Len(all_details) :
           \E i \in OkCalls :
               /\ Cardinality({j \in OkCalls : j <= i}) = d
               /\ all_details[d]._externalPath = detailLog[i][1]
    /\ (\A i \in 1..Len(detailLog) : detailLog[i][2] # "badshape") =>
           /\ raised # ItemError
           /\ pc = "details" => di = Len(detailLog) + 1
           /\ DetailsReturned => Len(detailLog) = Len(listings_df)

\* Three rows were called in order; the first and the second call were
\* skipped, the third produced the only detail record.
C9_Witness ==
    /\ pc = "returned_df"
    /\ Len(detailLog) = 3
    /\ detailLog[1][2] = "skipped" /\ detailLog[2][2] = "skipped"
    /\ detailLog[3][2] = "ok"
    /\ Len(all_details) = 1

\* C10 as stated: no run ends in the error outcome because a 2xx response
\* carried a body of an unexpected structure.
C10_MalformedBodyTolerated ==
    ~(raised \in {GetError, ItemError} /\ pc = "exit" /\ "error" \in {reported[n] : n \in 1..Len(reported)})

\* Exceptions raised by the listing, deduplication, detail, merge and export
\* phases.
PhaseErrors == {GetError, ItemError, WriteError}

\* C11 as stated: a run ended by an exception of the listing, deduplication,
\* detail, merge or export phase has recorded an error entry carrying the
\* exception message as its last history entry, has recorded no success
\* entry, and has exited with a non-zero code.
C11_ExceptionEndsErrored ==
    (pc = "exit" /\ raised \in PhaseErrors) =>
        /\ Appended # <<>>
        /\ Last(Appended) = Entry("error", 0, raised)
        /\ \A n \in 1..Len(Appended) : Appended[n].status # "success"
        /\ exitCode > 0

\* The fetch_job_list and fetch_job_details calls issued so far, in order.
ListRequests == SelectSeq(timeline, LAMBDA e : e.ev = "list")

DetailRequests == SelectSeq(timeline, LAMBDA e : e.ev = "detail")

\* The listing loop met an empty page or ran through range(0, MAX_JOBS, 20).
PaginationFinished ==
    pageLog # <<>> /\ (Last(pageLog) = <<>> \/ Len(pageLog) = MAX_JOBS \div limit)

\* Every request issued so far has been answered and its answer taken into
\* the run's state: nothing is outstanding.
NothingOutstanding ==
    /\ Len(ListRequests) = Len(pageLog) + (IF raised = GetError THEN 1 ELSE 0)
    /\ all_postings = Concat(pageLog)
    /\ Len(DetailRequests) = Len(detailLog)
    /\ Len(all_details) = Cardinality(OkCalls)
    /\ pc = "details" => di = Len(detailLog) + 1

\* Every listing request comes before every detail request, and a detail
\* request is issued only once pagination has finished and listings_df is
\* there.
PhasesInOrder ==
    /\ \A i, j \in 1..Len(timeline) :
           (timeline[i].ev = "detail" /\ timeline[j].ev = "list") => j < i
    /\ DetailRequests # <<>> =>
           /\ PaginationFinished
           /\ listings_df # <<>>
           /\ pc \notin {"listing", "after_listing"}

\* C12: requests are strictly sequential.  A step issues at most one request;
\* between steps no request is outstanding, the answer of each having been
\* taken into all_postings or all_details before the next is issued; and no
\* detail request is issued before pagination and deduplication have
\* finished.
C12_StrictlySequential ==
    /\ [](NothingOutstanding /\ PhasesInOrder)
    /\ [][Len(ListRequests') + Len(DetailRequests')
             <= Len(ListRequests) + Len(DetailRequests) + 1]_vars

\* Two listing pages, then two detail requests, one after the other.
C12_Witness ==
    /\ Len(ListRequests) >= 2
    /\ Len(DetailRequests) = 2
    /\ pc = "details"
    /\ Len(all_details) = 2

\* C13: the listing requests carry the offsets 0, 20, 40, ... in this order,
\* each once and all below MAX_JOBS; an empty page is the last page
\* requested and ends the loop; a page whose attempts all failed is such an
\* empty page; the postings of the earlier pages stay in all_postings, and
\* once deduplication has run every fingerprint of all_postings has a row in
\* listings_df.
C13_PaginationStopsAtEmptyPage ==
    /\ LET requests == ListRequests
       IN  \A i \in 1..Len(requests) :
               /\ requests[i].offset = limit * (i - 1)
               /\ requests[i].offset < MAX_JOBS
    /\ \A i \in 1..Len(pageLog) :
           pageLog[i] = <<>> => (i = Len(pageLog) /\ pc # "listing")
    /\ (DetailRequests = <<>> /\ ListRequests # <<>> /\ lastFetch.firstOk = 0) =>
           /\ pc # "listing"
           /\ pageLog # <<>> /\ Last(pageLog) = <<>>
           /\ raised # GetError
    /\ all_postings = Concat(pageLog)
    /\ (all_postings # <<>> /\ pc \notin {"listing", "after_listing"}
            /\ raised # GetError) =>
           /\ listings_df # <<>>
           /\ \A i \in 1..Len(all_postings) :
                  \E j \in 1..Len(listings_df) :
                      listings_df[j].bulletFields = all_postings[i].bulletFields

\* The second page failed at every attempt: the loop has ended after two
\* requests and the postings of the first page went on to deduplication.
C13_Witness ==
    /\ pc = "details"
    /\ DetailRequests = <<>>
    /\ Len(ListRequests) = 2
    /\ lastFetch.firstOk = 0
    /\ lastFetch.fetch.attempts = MAX_RETRIES
    /\ Len(all_postings) = 2
    /\ Len(listings_df) = 2

\* Attempts of the last fetch_with_retry call that the server failed.
FailedAttempts ==
    IF lastFetch.firstOk = 0 THEN MAX_RETRIES ELSE lastFetch.firstOk - 1

C15_PolitenessDelay ==
    \A i \in 1..Len(timeline) :
        (/\ timeline[i].ev \in {"list", "detail"}
         /\ \E j \in (i + 1)..Len(timeline) : timeline[j].ev = timeline[i].ev)
        => /\ timeline[i + 1] = Sleep(REQUEST_DELAY)
           /\ timeline[i + 2].ev = timeline[i].ev

\* A detail request that was skipped and a listing request were each
\* followed by the delay and then by the next request of their loop.
C15_Witness ==
    /\ Len(ListRequests) >= 2
    /\ Len(detailLog) >= 2
    /\ detailLog[1][2] = "skipped"
    /\ \E i \in 1..Len(timeline) :
           /\ timeline[i] = DetailRequest(detailLog[1][1])
           /\ timeline[i + 1] = Sleep(REQUEST_DELAY)
           /\ timeline[i + 2] = DetailRequest(detailLog[2][1])

\* Rows of all_postings no earlier row shares its fingerprint with.
FirstOccurrences ==
    {i \in 1..Len(all_postings) :
        \A j \in 1..(i - 1) :
            all_postings[j].bulletFields # all_postings[i].bulletFields}

\* The rows of s at the indexes idx, in the order of s.
Pick(s, idx) ==
    [k \in 1..Cardinality(idx) |->
        s[CHOOSE i \in idx : Cardinality({j \in idx : j <= i}) = k]]

\* The summary columns of the rows of the merged table.
SummariesOf(rows) ==
    [n \in 1..Len(rows) |->
        [externalPath |-> rows[n].externalPath, bulletFields |-> rows[n].bulletFields]]

\* Number of rows summary l has in the merged table.
RowCount(l) ==
    LET m == Cardinality({d \in 1..Len(all_details) :
                             all_details[d]._externalPath = l.externalPath})
    IN  IF m = 0 THEN 1 ELSE m

\* C16: listings_df is all_postings cut down to the first row of each
\* fingerprint, in the order of all_postings (all of it when no posting
\* carries a fingerprint); and the merged table lists the rows of each
\* summary in the order of listings_df.
C16_FirstWinsOrderKept ==
    /\ listings_df # <<>> =>
           listings_df = IF HasFingerprintColumn(all_postings)
                         THEN Pick(all_postings, FirstOccurrences)
                         ELSE all_postings
    /\ final_df # <<>> =>
           SummariesOf(final_df)
               = Concat([i \in 1..Len(listings_df) |->
                            [k \in 1..RowCount(listings_df[i]) |-> listings_df[i]]])

\* Of three postings the second repeated the fingerprint of the first and was
\* dropped; the merged table has the first and the third, in this order.
C16_Witness ==
    /\ pc = "returned_df"
    /\ Len(all_postings) = 3
    /\ all_postings[2].bulletFields = all_postings[1].bulletFields
    /\ listings_df = <<all_postings[1], all_postings[3]>>
    /\ SummariesOf(final_df) = listings_df

\* Positions in column_mapping of the keys the merged table has.
PresentKeys ==
    {k \in 1..Len(column_mapping) :
        \E i \in 1..Len(merged_columns) : merged_columns[i] = column_mapping[k][1]}

\* C17: the columns of the final table are Scraped Date, then, for each key
\* of column_mapping that is a column of the merged table, the label the
\* mapping gives that key, in the order of the mapping, and nothing else.
C17_ColumnsAreMappedLabels ==
    final_columns # <<>> =>
        /\ final_columns[1] = "Scraped Date"
        /\ Len(final_columns) = Cardinality(PresentKeys) + 1
        /\ \A n \in 2..Len(final_columns) :
               \E k \in PresentKeys :
                   /\ Cardinality({j \in PresentKeys : j <= k}) = n - 1
                   /\ final_columns[n] = column_mapping[k][2]

\* A merged table with two mapped keys, an unmapped column of each input and
\* the join keys: the final table has Scraped Date and the two labels.
C17_Witness ==
    /\ merged_columns = <<"externalPath", "title", "jobPostingInfo.title",
                          "jobPostingInfo.location", "jobPostingInfo.country",
                          "_externalPath">>
    /\ final_columns = <<"Scraped Date", "Job Title", "Location">>

\* A number every step of a run makes smaller: the phases in the order main
\* runs through them, and inside a loop the iterations left.
Measure ==
    CASE pc = "listing" -> 100 + (MAX_JOBS - offset) \div limit
      [] pc = "after_listing" -> 90
      [] pc = "details" -> 50 + (Len(listings_df) + 1 - di)
      [] pc = "returned_df" -> 40
      [] pc = "exported" -> 30
      [] pc = "saved" -> 20
      [] pc = "returned_none" -> 15
      [] pc = "except" -> 10
      [] OTHER -> 0

Statuses == {reported[n] : n \in 1..Len(reported)}

\* The requests issued are at most MAX_JOBS/20 listing requests and one
\* detail request per row of listings_df, and a request makes at most
\* MAX_RETRIES attempts; a run that has not exited can take a step; a run that
\* has exited has handed the run history one of the three statuses.
BoundedRequests ==
    /\ Len(ListRequests) <= MAX_JOBS \div limit
    /\ Len(DetailRequests) <= Len(listings_df)
    /\ lastFetch.fetch.attempts <= MAX_RETRIES
    /\ pc # "exit" => ENABLED Next
    /\ pc = "exit" =>
           /\ reported # <<>>
           /\ Last(reported) \in {"success", "no_data", "error"}
           /\ exitCode \in {0, 1}

\* C18: every run ends, having handed over success, no_data or error: each
\* step makes Measure smaller, and a run stops only at exit.  A step issues
\* at most one request, of at most MAX_RETRIES attempts, and the requests of
\* a run are at most MAX_JOBS/20 listing requests and one detail request per
\* deduplicated summary, so that the attempts of a run are at most
\* MAX_RETRIES * (MAX_JOBS/20 + number of deduplicated summaries).
C18_TerminatesWithinBudget ==
    /\ []BoundedRequests
    /\ [][/\ Measure' < Measure
          /\ Len(ListRequests') + Len(DetailRequests')
                 <= Len(ListRequests) + Len(DetailRequests) + 1
          /\ (timeline' # timeline) => lastFetch'.fetch.attempts <= MAX_RETRIES
          /\ (timeline' = timeline) => lastFetch' = lastFetch]_vars

\* A run has exited after the most requests the bounds allow, the last of
\* them having taken every attempt.
C18_Witness ==
    /\ pc = "exit"
    /\ Len(ListRequests) = MAX_JOBS \div limit
    /\ Len(listings_df) >= 2
    /\ Len(DetailRequests) = Len(listings_df)
    /\ lastFetch.fetch.attempts = MAX_RETRIES

AllFormats == {Formats[k] : k \in 1..Len(Formats)}

\* C19 as stated: export files exist only for a non-empty dataset, success
\* is handed over only with every format written, and a run that has ended
\* with no_data or error as its last status has written no export file.
C19_NoExportUnlessSuccess ==
    /\ exported # {} => final_df # <<>>
    /\ "success" \in Statuses => exported = AllFormats
    /\ (pc = "exit" /\ Last(reported) \in {"no_data", "error"}) => exported = {}

\* C19 amended: export files exist only for a non-empty dataset; success is
\* handed over only with every format written; a run that handed over
\* no_data has written no export file; a run that has ended with error has
\* written export files only when the exception was raised by export_data
\* itself or after it, and none when the exception came from the listing or
\* the detail phase.
C19_ExportThenSuccess ==
    /\ exported # {} =>
           /\ final_df # <<>>
           /\ pc \in {"exported", "saved", "except", "exit"}
    /\ "success" \in Statuses => exported = AllFormats
    /\ "no_data" \in Statuses => exported = {}
    /\ ("error" \in Statuses /\ exported # {}) =>
           raised \in {WriteError, AppendError, PrintError}
    /\ raised \in {GetError, ItemError} => exported = {}
    /\ (raised = WriteError /\ pc = "exit") =>
           (exported # AllFormats /\ "success" \notin Statuses)

\* export_data wrote the xlsx file and raised while writing the csv file: the
\* run has ended with status error and one export file.
C19_Witness ==
    /\ pc = "exit"
    /\ raised = WriteError
    /\ exported = {"xlsx"}
    /\ reported = <<"error">>
    /\ exitCode = 1

====
